---------------------------- MODULE Spec2Model ----------------------------
(***************************************************************************)
(* Alexandria CRM (src/app.py): the contact / notes / email-log layer that *)
(* the Streamlit handlers run against three worksheets of one spreadsheet. *)
(*                                                                         *)
(* A worksheet is a sequence of rows, row 1 being the header row; a row is *)
(* a sequence of cells; a cell is the text the sheet shows, a sequence of  *)
(* one-character strings.  Python values the handlers compute with are     *)
(* tagged records (PyInt, PyStr); the two conversions between cells and    *)
(* Python values (append_row / update on the way in, get_all_records on    *)
(* the way out) are modelled by what they do.                              *)
(***************************************************************************)
EXTENDS Integers, Sequences, FiniteSets, TLC

VARIABLES
    Contacts,    \* worksheet "Contacts"
    Notes,       \* worksheet "Notes"
    Email_Log,   \* worksheet "Email_Log"
    today,       \* days elapsed since the first day of the run (the clock)
    sess,        \* per-session position and locals of a handler in progress
    last         \* outcome of the handler or helper that ran last

vars == <<Contacts, Notes, Email_Log, today, sess, last>>

-----------------------------------------------------------------------------
(* Bounds of the model.                                                    *)
MaxContacts == 2   \* data rows of Contacts
MaxNotes == 1      \* data rows of Notes
MaxEmails == 1     \* data rows of Email_Log
MaxDay == 1        \* midnights that pass during a run

-----------------------------------------------------------------------------
(* Text.                                                                   *)

Range(s) == {s[i] : i \in 1..Len(s)}

DigitChars == <<"0", "1", "2", "3", "4", "5", "6", "7", "8", "9">>

DigitSet == {"0", "1", "2", "3", "4", "5", "6", "7", "8", "9"}

IsDigit(c) == c \in DigitSet

DigitVal(c) == (CHOOSE i \in 1..Len(DigitChars) : DigitChars[i] = c) - 1

AllDigits(s) == s # <<>> /\ \A i \in 1..Len(s) : IsDigit(s[i])

RECURSIVE ParseNat(_)
ParseNat(s) ==
    IF s = <<>> THEN 0
    ELSE ParseNat(SubSeq(s, 1, Len(s) - 1)) * Len(DigitChars) + DigitVal(s[Len(s)])

RECURSIVE NatDigits(_)
NatDigits(n) ==
    IF n < Len(DigitChars) THEN <<DigitChars[n + 1]>>
    ELSE NatDigits(n \div Len(DigitChars)) \o <<DigitChars[(n % Len(DigitChars)) + 1]>>

\* n as decimal digits, left-padded with zeros to width w (format spec 0wd)
RECURSIVE ZeroPad(_, _)
ZeroPad(n, w) ==
    IF Len(NatDigits(n)) >= w THEN NatDigits(n)
    ELSE <<"0">> \o ZeroPad(n, w - 1)

-----------------------------------------------------------------------------
(* Python values.                                                          *)

PyInt(n) == [kind |-> "int", n |-> n, s |-> <<>>]
PyStr(s) == [kind |-> "str", n |-> 0, s |-> s]

\* str(v)
Str(v) ==
    IF v.kind = "int"
    THEN (IF v.n < 0 THEN <<"-">> \o NatDigits(0 - v.n) ELSE NatDigits(v.n))
    ELSE v.s

\* bool(v): the test of "if email:", "if n['Date']", "not contact['Email']"
Truthy(v) == IF v.kind = "int" THEN v.n # 0 ELSE v.s # <<>>

-----------------------------------------------------------------------------
(* Header contracts.                                                       *)

H_Contact_ID == <<"C", "o", "n", "t", "a", "c", "t", " ", "I", "D">>
H_Name == <<"N", "a", "m", "e">>
H_Email == <<"E", "m", "a", "i", "l">>
H_Phone == <<"P", "h", "o", "n", "e">>
H_Company == <<"C", "o", "m", "p", "a", "n", "y">>
H_Industry == <<"I", "n", "d", "u", "s", "t", "r", "y">>
H_Status == <<"S", "t", "a", "t", "u", "s">>
H_Assigned_Contractor == <<"A", "s", "s", "i", "g", "n", "e", "d", " ", "C", "o", "n", "t", "r", "a", "c", "t", "o", "r">>
H_Created_Date == <<"C", "r", "e", "a", "t", "e", "d", " ", "D", "a", "t", "e">>
H_Note_ID == <<"N", "o", "t", "e", " ", "I", "D">>
H_Contractor == <<"C", "o", "n", "t", "r", "a", "c", "t", "o", "r">>
H_Date == <<"D", "a", "t", "e">>
H_Note == <<"N", "o", "t", "e">>
H_Email_ID == <<"E", "m", "a", "i", "l", " ", "I", "D">>
H_Subject == <<"S", "u", "b", "j", "e", "c", "t">>
H_Sent_By == <<"S", "e", "n", "t", " ", "B", "y">>

CONTACT_HEADERS ==
    <<H_Contact_ID, H_Name, H_Email, H_Phone, H_Company, H_Industry, H_Status, H_Assigned_Contractor, H_Created_Date>>
NOTES_HEADERS ==
    <<H_Note_ID, H_Contact_ID, H_Contractor, H_Date, H_Note>>
EMAIL_HEADERS ==
    <<H_Email_ID, H_Contact_ID, H_Subject, H_Sent_By, H_Date, H_Status>>

-----------------------------------------------------------------------------
(* The store round trip.                                                   *)

\* text.strip() for the blank the model's inputs can hold
RECURSIVE Strip(_)
Strip(s) ==
    IF s # <<>> /\ s[1] = " " THEN Strip(SubSeq(s, 2, Len(s)))
    ELSE IF s # <<>> /\ s[Len(s)] = " " THEN Strip(SubSeq(s, 1, Len(s) - 1))
    ELSE s

Unsigned(s) == IF s # <<>> /\ s[1] \in {"+", "-"} THEN SubSeq(s, 2, Len(s)) ELSE s

\* int(text) succeeds: blanks around, an optional sign, decimal digits
IsIntLiteral(s) == AllDigits(Unsigned(Strip(s)))

IntOf(s) ==
    IF Strip(s)[1] = "-" THEN 0 - ParseNat(Unsigned(Strip(s)))
    ELSE ParseNat(Unsigned(Strip(s)))

\* What get_all_records makes of one cell (gspread numericises every cell:
\* text with an underscore is kept, text int() accepts becomes an int, other
\* text, the empty cell included, stays text).  No cell of this model is a
\* float literal, so the float branch is never taken.
Numericise(cell) ==
    IF "_" \in Range(cell) THEN PyStr(cell)
    ELSE IF IsIntLiteral(cell) THEN PyInt(IntOf(cell))
    ELSE PyStr(cell)

\* The text a cell shows once append_row / update has stored a Python value
ToCell(v) == Str(v)

Index(seq, x) == CHOOSE i \in 1..Len(seq) : seq[i] = x

\* ws.get_all_records(expected_headers=headers): one dict per data row,
\* keyed by the header row, every cell numericised
get_all_records(ws, expected_headers) ==
    [k \in 1..(Len(ws) - 1) |->
        [h \in Range(expected_headers) |-> Numericise(ws[k + 1][Index(ws[1], h)])]]

\* ws.append_row(values)
append_row(ws, values) == Append(ws, [i \in 1..Len(values) |-> ToCell(values[i])])

\* ws.update("A{idx}:I{idx}", [values]): overwrite sheet row idx
update_row(ws, idx, values) ==
    [ws EXCEPT ![idx] = [i \in 1..Len(values) |-> ToCell(values[i])]]

\* setup_sheets: a worksheet created with its header row only
NewSheet(headers) == <<headers>>

-----------------------------------------------------------------------------
(* Calendar dates: datetime.date as <<year, month, day>>.                  *)

FirstDay == <<2024, 2, 28>>   \* the date of the first day of a run

IsLeap(y) == (y % 4 = 0 /\ y % 100 # 0) \/ y % 400 = 0

DaysInMonth(y, m) ==
    IF m = 2 THEN (IF IsLeap(y) THEN 29 ELSE 28)
    ELSE IF m \in {4, 6, 9, 11} THEN 30 ELSE 31

NextDay(d) ==
    IF d[3] < DaysInMonth(d[1], d[2]) THEN <<d[1], d[2], d[3] + 1>>
    ELSE IF d[2] < 12 THEN <<d[1], d[2] + 1, 1>>
    ELSE <<d[1] + 1, 1, 1>>

RECURSIVE DateAfter(_)
DateAfter(n) == IF n = 0 THEN FirstDay ELSE NextDay(DateAfter(n - 1))

\* date.isoformat(): YYYY-MM-DD, zero padded
isoformat(d) ==
    ZeroPad(d[1], 4) \o <<"-">> \o ZeroPad(d[2], 2) \o <<"-">> \o ZeroPad(d[3], 2)

\* datetime.date.today().isoformat() on day n of the run
TodayIso(n) == isoformat(DateAfter(n))

\* date.fromisoformat(text) accepts text: YYYY-MM-DD naming a real day
IsIsoDate(s) ==
    /\ Len(s) = 10
    /\ s[5] = "-" /\ s[8] = "-"
    /\ AllDigits(SubSeq(s, 1, 4)) /\ AllDigits(SubSeq(s, 6, 7)) /\ AllDigits(SubSeq(s, 9, 10))
    /\ ParseNat(SubSeq(s, 1, 4)) >= 1
    /\ ParseNat(SubSeq(s, 6, 7)) \in 1..12
    /\ ParseNat(SubSeq(s, 9, 10)) \in
           1..DaysInMonth(ParseNat(SubSeq(s, 1, 4)), ParseNat(SubSeq(s, 6, 7)))

fromisoformat(s) ==
    <<ParseNat(SubSeq(s, 1, 4)), ParseNat(SubSeq(s, 6, 7)), ParseNat(SubSeq(s, 9, 10))>>

\* d1 < d2 on dates
DateLess(d1, d2) ==
    \/ d1[1] < d2[1]
    \/ d1[1] = d2[1] /\ d1[2] < d2[2]
    \/ d1[1] = d2[1] /\ d1[2] = d2[2] /\ d1[3] < d2[3]

\* The first date of the list in place of the latest
MaxDateFirst(dates) == dates[1]

\* max(dates) of a non-empty list
RECURSIVE MaxDate(_)
MaxDate(dates) ==
    IF Len(dates) = 1 THEN dates[1]
    ELSE LET m == MaxDate(SubSeq(dates, 1, Len(dates) - 1))
         IN IF DateLess(m, dates[Len(dates)]) THEN dates[Len(dates)] ELSE m

-----------------------------------------------------------------------------
(* CRM helpers.                                                            *)

\* get_all_contacts
get_all_contacts(ws) == get_all_records(ws, CONTACT_HEADERS)

\* The duplicate scan without the "if email:" guard
FindEmailUnguarded(contacts, email) ==
    IF \E k \in 1..Len(contacts) : contacts[k][H_Email] = email
    THEN CHOOSE k \in 1..Len(contacts) : contacts[k][H_Email] = email
    ELSE 0

\* add_contact, the duplicate scan: the position in contacts of the first
\* row whose Email equals email, 0 when email is empty or no row does
FindEmail(contacts, email) ==
    IF Truthy(email) /\ \E k \in 1..Len(contacts) : contacts[k][H_Email] = email
    THEN CHOOSE k \in 1..Len(contacts) :
             /\ contacts[k][H_Email] = email
             /\ \A j \in 1..(k - 1) : contacts[j][H_Email] # email
    ELSE 0

\* The ID of a new row taken as the row count itself
NewContactIdNoIncrement(contacts) == Len(contacts)

\* add_contact, the ID of a new row
NewContactId(contacts) == Len(contacts) + 1

\* add_contact reading the rows again at the time of the append
AddContactBodyRereads(contacts, ws, day, a) ==
    LET fresh == get_all_records(ws, CONTACT_HEADERS)
        found == FindEmail(fresh, PyStr(a.email))
        row == <<PyInt(NewContactId(fresh)), PyStr(a.name), PyStr(a.email), PyStr(a.phone),
                 PyStr(a.company), PyStr(a.industry), PyStr(a.status),
                 PyStr(a.contractor), PyStr(TodayIso(day))>>
    IN  IF found # 0
        THEN [ws |-> ws, ret |-> fresh[found][H_Contact_ID], wrote |-> FALSE]
        ELSE [ws |-> append_row(ws, row), ret |-> PyInt(NewContactId(fresh)), wrote |-> TRUE]

\* add_contact from the rows it read: contacts is what get_all_records
\* returned, ws the worksheet at the time of the append, a the arguments.
\* Yields the worksheet afterwards, the value returned, and whether it wrote.
AddContactBody(contacts, ws, day, a) ==
    LET found == FindEmail(contacts, PyStr(a.email))
        contact_id == NewContactId(contacts)
        row == <<PyInt(contact_id), PyStr(a.name), PyStr(a.email), PyStr(a.phone),
                 PyStr(a.company), PyStr(a.industry), PyStr(a.status),
                 PyStr(a.contractor), PyStr(TodayIso(day))>>
    IN  IF found # 0
        THEN [ws |-> ws, ret |-> contacts[found][H_Contact_ID], wrote |-> FALSE]
        ELSE [ws |-> append_row(ws, row), ret |-> PyInt(contact_id), wrote |-> TRUE]

\* add_contact(sheet, name, email, phone, company, industry, status, contractor)
add_contact(ws, day, a) == AddContactBody(get_all_contacts(ws), ws, day, a)

\* log_email(sheet, email_id, contact_id, subject, sent_by, status)
log_email(ws, day, email_id, contact_id, subject, sent_by, status) ==
    append_row(ws, <<PyStr(email_id), PyStr(contact_id), PyStr(subject),
                     PyStr(sent_by), PyStr(TodayIso(day)), PyStr(status)>>)

\* add_note(sheet, note_id, contact_id, contractor, note)
add_note(ws, day, note_id, contact_id, contractor, note) ==
    append_row(ws, <<PyInt(note_id), PyStr(contact_id), PyStr(contractor),
                     PyStr(TodayIso(day)), PyStr(note)>>)

\* The rows of records whose Contact ID, as text, is contact_id as text
ForContact(records, contact_id) ==
    SelectSeq(records, LAMBDA r : Str(r[H_Contact_ID]) = Str(contact_id))

\* get_notes(sheet, contact_id)
get_notes(ws, contact_id) == ForContact(get_all_records(ws, NOTES_HEADERS), contact_id)

\* get_emails(sheet, contact_id)
get_emails(ws, contact_id) == ForContact(get_all_records(ws, EMAIL_HEADERS), contact_id)

\* The comprehension without its "if n['Date']" filter
WithDateUnfiltered(rows) == rows

\* The rows a list comprehension "... for n in rows if n['Date']" keeps
WithDate(rows) == SelectSeq(rows, LAMBDA r : Truthy(r[H_Date]))

\* The exception date.fromisoformat(v) raises, "" when it raises none
ParseError(v) ==
    IF v.kind # "str" THEN "TypeError"
    ELSE IF ~IsIsoDate(v.s) THEN "ValueError"
    ELSE ""

\* The literal compute_last_contacted returns when it found no date
NoActivity == <<"(dash)">>

\* compute_last_contacted(sheet, contact_id): the exception it raises and,
\* when it raises none, the text it returns
compute_last_contacted(notesWs, emailWs, contact_id) ==
    LET notes == get_notes(notesWs, contact_id)
        emails == get_emails(emailWs, contact_id)
        kept == WithDate(notes) \o WithDate(emails)
        bad == SelectSeq(kept, LAMBDA r : ParseError(r[H_Date]) # "")
        dates == [i \in 1..Len(kept) |-> fromisoformat(kept[i][H_Date].s)]
    IN  IF bad # <<>> THEN [exc |-> ParseError(bad[1][H_Date]), value |-> <<>>]
        ELSE IF dates = <<>> THEN [exc |-> "", value |-> NoActivity]
        ELSE [exc |-> "", value |-> isoformat(MaxDate(dates))]

-----------------------------------------------------------------------------
(* Pieces of the Streamlit handlers.                                       *)

\* f"{c['Contact ID']} - {c['Name']}"
ChoiceLabel(c) == Str(c[H_Contact_ID]) \o <<" ", "-", " ">> \o Str(c[H_Name])

\* choice.split(" - ")[0]
RECURSIVE SplitHead(_)
SplitHead(s) ==
    IF s = <<>> THEN <<>>
    ELSE IF Len(s) >= 3 /\ SubSeq(s, 1, 3) = <<" ", "-", " ">> THEN <<>>
    ELSE <<s[1]>> \o SplitHead(SubSeq(s, 2, Len(s)))

\* next(c for c in contacts if str(c["Contact ID"]) == contact_id)
SelectedContact(contacts, contact_id) == ForContact(contacts, PyStr(contact_id))[1]

\* Update Contact, the scan "for idx, rec in enumerate(all_records, start=2)":
\* the sheet row of the first record whose ID matches, 0 when none does
MatchRow(all_records, contact_id) ==
    IF \E k \in 1..Len(all_records) : Str(all_records[k][H_Contact_ID]) = Str(PyStr(contact_id))
    THEN 1 + (CHOOSE k \in 1..Len(all_records) :
                 /\ Str(all_records[k][H_Contact_ID]) = Str(PyStr(contact_id))
                 /\ \A j \in 1..(k - 1) :
                        Str(all_records[j][H_Contact_ID]) # Str(PyStr(contact_id)))
    ELSE 0

\* Update Contact, the row written over the match
UpdatedRow(contact_id, contact, a) ==
    <<PyStr(contact_id), PyStr(a.name), PyStr(a.email), PyStr(a.phone),
      PyStr(a.company), PyStr(a.industry), PyStr(a.status), PyStr(a.contractor),
      contact[H_Created_Date]>>

\* The button writing a new row when no row matches
UpdateButtonUpsert(ws, contact_id, contact, a) ==
    LET idx == MatchRow(get_all_records(ws, CONTACT_HEADERS), contact_id)
    IN  IF idx # 0
        THEN [ws |-> update_row(ws, idx, UpdatedRow(contact_id, contact, a)),
              out |-> "success"]
        ELSE [ws |-> append_row(ws, UpdatedRow(contact_id, contact, a)),
              out |-> "success"]

\* The "Update Contact" button: ws is the worksheet when the button runs,
\* contact_id and contact what the page selected, a the form's values.
\* Yields the worksheet afterwards and what the page reported.
UpdateButton(ws, contact_id, contact, a) ==
    LET idx == MatchRow(get_all_records(ws, CONTACT_HEADERS), contact_id)
    IN  IF idx # 0
        THEN [ws |-> update_row(ws, idx, UpdatedRow(contact_id, contact, a)),
              out |-> "success"]
        ELSE [ws |-> ws, out |-> "none"]

\* Send Email, the dropdown: the key a contact has in unique_contacts
DedupKey(c) ==
    IF Truthy(c[H_Email]) THEN c[H_Email]
    ELSE PyStr(<<"n", "o", "e", "m", "a", "i", "l", "-">> \o Str(c[H_Contact_ID]))

\* Send Email, the dropdown: positions of the contacts the dict keeps (for
\* each key the last one)
UniqueContacts(contacts) ==
    {k \in 1..Len(contacts) :
        \A j \in (k + 1)..Len(contacts) : DedupKey(contacts[j]) # DedupKey(contacts[k])}

\* gmail_service_from_secrets(account_key), by what the secrets hold for the
\* account: nothing, a token that does not load, or a usable token
gmail_service_from_secrets(secret) ==
    IF secret = "absent" THEN [service |-> FALSE, err |-> "missing"]
    ELSE IF secret = "unusable" THEN [service |-> FALSE, err |-> "credentials error"]
    ELSE [service |-> TRUE, err |-> ""]

\* The button logging before it sends, so that a failed send leaves a row
SendEmailClickLogFirst(ws, day, contact_id, contact, subject, account_choice, secret, reply) ==
    IF ~Truthy(contact[H_Email]) THEN [ws |-> ws, out |-> "no_email"]
    ELSE IF gmail_service_from_secrets(secret).err # "" THEN [ws |-> ws, out |-> "cred_error"]
    ELSE [ws |-> log_email(ws, day, <<>>, contact_id, subject, account_choice,
                           <<"S", "e", "n", "t">>),
          out |-> IF reply = {} THEN "send_raised" ELSE "sent"]

\* The "Send Email" button: contact the selected contact, secret what the
\* secrets hold, reply the provider's answer ({} when the call raises, else
\* a one-element set holding the message id).  Yields the Email_Log
\* worksheet afterwards and what happened.
SendEmailClick(ws, day, contact_id, contact, subject, account_choice, secret, reply) ==
    IF ~Truthy(contact[H_Email]) THEN [ws |-> ws, out |-> "no_email"]
    ELSE IF gmail_service_from_secrets(secret).err # "" THEN [ws |-> ws, out |-> "cred_error"]
    ELSE IF reply = {} THEN [ws |-> ws, out |-> "send_raised"]
    ELSE [ws |-> log_email(ws, day, CHOOSE m \in reply : TRUE, contact_id, subject,
                           account_choice, <<"S", "e", "n", "t">>),
          out |-> "sent"]

-----------------------------------------------------------------------------
(* Inputs the handlers are driven with.                                    *)

Empty == <<>>
Jo == <<"J", "o">>
Bo == <<"B", "o">>
EmailA == <<"a", "@", "x">>
EmailB == <<"b", "@", "x">>
EmailDigits == <<"0", "7">>
Phone1 == <<"5", "-", "1">>
Acme == <<"A", "c">>
Retail == <<"R", "e">>
Al == <<"A", "l">>
NewLead == <<"N", "e", "w", " ", "L", "e", "a", "d">>
InProgress == <<"I", "n", " ", "P", "r", "o", "g", "r", "e", "s", "s">>
Closed == <<"C", "l", "o", "s", "e", "d">>

\* st.selectbox("Status", ["New Lead", "In Progress", "Closed"])
Statuses == {NewLead, InProgress, Closed}

\* Form values of the contact pages
Forms ==
    [name : {Jo}, email : {Empty, EmailA, EmailB, EmailDigits}, phone : {Phone1},
     company : {Acme}, industry : {Retail}, status : {NewLead},
     contractor : {Al}]

\* Form values used where the contacts only have to exist
PlainForms ==
    [name : {Jo}, email : {Empty, EmailA}, phone : {Phone1}, company : {Acme},
     industry : {Retail}, status : {NewLead}, contractor : {Al}]

Subjects == {<<"H", "i">>}
NoteTexts == {<<"o", "k">>}
Accounts == {<<"C", "h", "a", "r", "l", "e", "s">>}
Secrets == {"absent", "unusable", "usable"}
\* sent.get("id", ""): the provider's message id, "" when the reply has none
MessageIds == {<<"1", "8", "c">>, Empty}

Sessions == {1, 2}

-----------------------------------------------------------------------------
(* State.                                                                  *)

Idle == [pc |-> "idle", contacts |-> <<>>, a |-> <<>>, at |-> 0]

Nothing ==
    [op |-> "none", cid |-> <<>>, email |-> <<>>, ret |-> PyStr(<<>>), wrote |-> FALSE,
     pre |-> 0, out |-> "", row |-> <<>>, res |-> <<>>, secret |-> "", replied |-> FALSE]

DataRows(ws) == Len(ws) - 1

\* connect_to_sheets and setup_sheets on a fresh spreadsheet
Init ==
    /\ Contacts = NewSheet(CONTACT_HEADERS)
    /\ Notes = NewSheet(NOTES_HEADERS)
    /\ Email_Log = NewSheet(EMAIL_HEADERS)
    /\ today = 0
    /\ sess = [s \in Sessions |-> Idle]
    /\ last = Nothing

\* Midnight passes: datetime.date.today() moves on
AdvanceDay ==
    /\ today < MaxDay
    /\ today' = today + 1
    /\ UNCHANGED <<Contacts, Notes, Email_Log, sess, last>>

\* One whole call of add_contact with arguments a
AddContactWith(a) ==
    LET r == add_contact(Contacts, today, a)
    IN  /\ DataRows(r.ws) <= MaxContacts
        /\ Contacts' = r.ws
        /\ last' = [Nothing EXCEPT !.op = "add_contact", !.email = a.email, !.ret = r.ret,
                                   !.wrote = r.wrote, !.pre = DataRows(Contacts)]
        /\ UNCHANGED <<Notes, Email_Log, today, sess>>

\* add_contact called with any arguments
AddContactCall == \E a \in Forms : AddContactWith(a)

\* The "Add Contact" page: the button with the form's values
AddContactPage ==
    \E a \in Forms :
        IF a.name = Empty \/ a.email = Empty
        THEN /\ last' = [Nothing EXCEPT !.op = "add_rejected", !.email = a.email]
             /\ UNCHANGED <<Contacts, Notes, Email_Log, today, sess>>
        ELSE AddContactWith(a)

\* The "Update Contact" page in one script run: read the contacts, take the
\* selected one, run the button with the form's values
UpdateContactPage ==
    LET contacts == get_all_contacts(Contacts)
    IN  /\ contacts # <<>>
        /\ \E k \in 1..Len(contacts) :
              LET contact_id == SplitHead(ChoiceLabel(contacts[k]))
                  contact == SelectedContact(contacts, contact_id)
              IN  \E a \in Forms :
                    LET r == UpdateButton(Contacts, contact_id, contact, a)
                    IN  /\ Contacts' = r.ws
                        /\ last' = [Nothing EXCEPT
                                      !.op = "update", !.cid = contact_id, !.out = r.out,
                                      !.pre = DataRows(Contacts),
                                      !.row = <<a.name, a.email, a.phone, a.company,
                                                a.industry, a.status, a.contractor>>,
                                      !.res = Str(contact[H_Created_Date])]
        /\ UNCHANGED <<Notes, Email_Log, today, sess>>

Next == AddContactCall \/ AddContactPage \/ UpdateContactPage \/ AdvanceDay

Spec == Init /\ [][Next]_vars

-----------------------------------------------------------------------------
(* Notes, outreach and the dashboard.                                      *)

\* The arguments of the add_contact calls that made the contacts the pages
\* below work on: one contact with an email, one without
Seeds ==
    <<[name |-> Jo, email |-> EmailA, phone |-> Phone1, company |-> Acme,
       industry |-> Retail, status |-> NewLead, contractor |-> Al],
      [name |-> Bo, email |-> Empty, phone |-> Phone1, company |-> Acme,
       industry |-> Retail, status |-> Closed, contractor |-> Al]>>

\* The Contacts worksheet after add_contact ran for the first n of Seeds
RECURSIVE Seeded(_)
Seeded(n) ==
    IF n = 0 THEN NewSheet(CONTACT_HEADERS)
    ELSE add_contact(Seeded(n - 1), 0, Seeds[n]).ws

\* A spreadsheet on the first day, the seed contacts added, nothing logged
InitAct ==
    /\ Contacts = Seeded(Len(Seeds))
    /\ Notes = NewSheet(NOTES_HEADERS)
    /\ Email_Log = NewSheet(EMAIL_HEADERS)
    /\ today = 0
    /\ sess = [s \in Sessions |-> Idle]
    /\ last = Nothing

\* The "Notes" page: the "Add Note" button for the selected contact
NotesPage ==
    LET contacts == get_all_contacts(Contacts)
    IN  /\ contacts # <<>>
        /\ DataRows(Notes) < MaxNotes
        /\ \E k \in 1..Len(contacts), note \in NoteTexts :
              LET contact_id == SplitHead(ChoiceLabel(contacts[k]))
                  note_id == Len(get_all_records(Notes, NOTES_HEADERS)) + 1
              IN  /\ Notes' = add_note(Notes, today, note_id, contact_id, Al, note)
                  /\ last' = [Nothing EXCEPT !.op = "add_note", !.cid = contact_id,
                                             !.pre = DataRows(Notes)]
        /\ UNCHANGED <<Contacts, Email_Log, today, sess>>

\* The "Send Email" page: the button for the selected contact, with what the
\* secrets hold and what the provider answers
SendEmailPage ==
    LET contacts == get_all_contacts(Contacts)
    IN  /\ contacts # <<>>
        /\ \E k \in UniqueContacts(contacts) :
              LET contact_id == SplitHead(ChoiceLabel(contacts[k]))
                  contact == SelectedContact(contacts, contact_id)
              IN  \E subject \in Subjects, account_choice \in Accounts, secret \in Secrets,
                     reply \in {{}} \cup {{m} : m \in MessageIds} :
                    LET r == SendEmailClick(Email_Log, today, contact_id, contact, subject,
                                            account_choice, secret, reply)
                    IN  /\ DataRows(r.ws) <= MaxEmails
                        /\ Email_Log' = r.ws
                        /\ last' = [Nothing EXCEPT
                                      !.op = "send", !.cid = contact_id, !.out = r.out,
                                      !.email = Str(contact[H_Email]),
                                      !.pre = DataRows(Email_Log),
                                      !.secret = secret, !.replied = (reply # {}),
                                      !.res = IF reply = {} THEN <<>>
                                              ELSE CHOOSE m \in reply : TRUE]
        /\ UNCHANGED <<Contacts, Notes, today, sess>>

\* The "Dashboard" page, one pass of its loop: compute_last_contacted for a
\* contact of the table
DashboardRow ==
    LET contacts == get_all_contacts(Contacts)
    IN  /\ \E k \in 1..Len(contacts) :
              LET r == compute_last_contacted(Notes, Email_Log, contacts[k][H_Contact_ID])
              IN  last' = [Nothing EXCEPT !.op = "last_contacted",
                                          !.cid = Str(contacts[k][H_Contact_ID]),
                                          !.out = r.exc, !.res = r.value]
        /\ UNCHANGED <<Contacts, Notes, Email_Log, today, sess>>

NextAct == NotesPage \/ SendEmailPage \/ DashboardRow \/ AdvanceDay

SpecAct == InitAct /\ [][NextAct]_vars

-----------------------------------------------------------------------------
(* compute_last_contacted over worksheets edited outside the application:  *)
(* the spreadsheet is shared, so a Date cell can hold any text.            *)

Day1 == isoformat(FirstDay)
Day2 == isoformat(NextDay(NextDay(FirstDay)))
NoSuchDay == <<"2", "0", "2", "4", "-", "0", "2", "-", "3", "0">>
ZeroText == <<"0">>
YearOnly == <<"2", "0", "2", "4">>

DateCells == {Empty, Day1, Day2, NoSuchDay, ZeroText, YearOnly}
IdCells == {<<"1">>, <<"2">>}

NoteRows == {<<<<"1">>, c, Al, d, <<"o", "k">>>> : c \in IdCells, d \in DateCells}
EmailRows ==
    {<<<<"1", "8", "c">>, c, <<"H", "i">>, <<"C", "h", "a", "r", "l", "e", "s">>, d,
       <<"S", "e", "n", "t">>>> : c \in IdCells, d \in DateCells}

\* Every worksheet with the given header row and at most n data rows of rows
SheetsOf(headers, rows, n) ==
    UNION {{<<headers>> \o body : body \in [1..m -> rows]} : m \in 0..n}

InitAgg ==
    /\ Contacts = Seeded(Len(Seeds))
    /\ Notes \in SheetsOf(NOTES_HEADERS, NoteRows, MaxNotes)
    /\ Email_Log \in SheetsOf(EMAIL_HEADERS, EmailRows, MaxEmails)
    /\ today = 0
    /\ sess = [s \in Sessions |-> Idle]
    /\ last = Nothing

NextAgg == DashboardRow

SpecAgg == InitAgg /\ [][NextAgg]_vars

-----------------------------------------------------------------------------
(* The "Update Contact" button against a Contacts worksheet that changed   *)
(* after the page chose its contact.                                       *)

ContactRowCells ==
    {<<i, Jo, e, Phone1, Acme, Retail, NewLead, Al, Day1>> :
        i \in IdCells, e \in {Empty, EmailA}}

ContactSheets == SheetsOf(CONTACT_HEADERS, ContactRowCells, MaxContacts)

\* The page has read the worksheet as it was (before), the user has chosen
\* a contact; the worksheet is now what its editors made of it
InitUpd ==
    /\ Contacts \in ContactSheets
    /\ \E before \in ContactSheets :
          /\ DataRows(before) >= 1
          /\ \E k \in 1..DataRows(before) :
                LET contacts == get_all_contacts(before)
                    contact_id == SplitHead(ChoiceLabel(contacts[k]))
                IN  sess = [s \in Sessions |->
                              IF s = 1
                              THEN [pc |-> "chosen",
                                    contacts |-> <<SelectedContact(contacts, contact_id)>>,
                                    a |-> <<>>, at |-> 0]
                              ELSE Idle]
    /\ Notes = NewSheet(NOTES_HEADERS)
    /\ Email_Log = NewSheet(EMAIL_HEADERS)
    /\ today = 0
    /\ last = Nothing

\* The button, for the contact session s chose
UpdateClick(s) ==
    /\ sess[s].pc = "chosen"
    /\ \E a \in Forms :
          LET contact == sess[s].contacts[1]
              contact_id == SplitHead(ChoiceLabel(contact))
              r == UpdateButton(Contacts, contact_id, contact, a)
          IN  /\ Contacts' = r.ws
              /\ last' = [Nothing EXCEPT
                            !.op = "update", !.cid = contact_id, !.out = r.out,
                            !.pre = DataRows(Contacts),
                            !.row = <<a.name, a.email, a.phone, a.company,
                                      a.industry, a.status, a.contractor>>,
                            !.res = Str(contact[H_Created_Date])]
    /\ sess' = [sess EXCEPT ![s] = Idle]
    /\ UNCHANGED <<Notes, Email_Log, today>>

NextUpd == \E s \in Sessions : UpdateClick(s)

SpecUpd == InitUpd /\ [][NextUpd]_vars

-----------------------------------------------------------------------------
(* Two browser sessions in add_contact at once: the read of the rows and   *)
(* the append are separate calls to the store, with nothing held between.  *)

\* add_contact up to and including ws.get_all_records
AddRead(s) ==
    /\ sess[s].pc = "idle"
    /\ \E a \in PlainForms :
          sess' = [sess EXCEPT ![s] = [pc |-> "read",
                                      contacts |-> get_all_contacts(Contacts),
                                      a |-> a, at |-> 0]]
    /\ UNCHANGED <<Contacts, Notes, Email_Log, today, last>>

\* add_contact from the scan to the return
AddFinish(s) ==
    /\ sess[s].pc = "read"
    /\ LET r == AddContactBody(sess[s].contacts, Contacts, today, sess[s].a)
       IN  /\ DataRows(r.ws) <= MaxContacts
           /\ Contacts' = r.ws
           /\ sess' = [sess EXCEPT ![s].pc = "idle",
                                   ![s].at = IF r.wrote THEN Len(r.ws) ELSE 0]
           /\ last' = [Nothing EXCEPT !.op = "add_contact", !.email = sess[s].a.email,
                                      !.ret = r.ret, !.wrote = r.wrote,
                                      !.pre = Len(sess[s].contacts)]
    /\ UNCHANGED <<Notes, Email_Log, today>>

NextConc == \E s \in Sessions : AddRead(s) \/ AddFinish(s)

SpecConc == Init /\ [][NextConc]_vars

-----------------------------------------------------------------------------
(* Properties of the contact pages, checked under Spec.                    *)

ContactRows == get_all_contacts(Contacts)

\* C1: two consecutive add_contact calls with the same non-empty email
\* return the same contact ID and the second call leaves the Contacts
\* worksheet as it was (so at most one row is appended by the pair).
C1_SecondCallFindsFirst ==
    [][(/\ last.op = "add_contact" /\ last'.op = "add_contact"
        /\ last.email # Empty /\ last'.email = last.email)
       => (last'.ret = last.ret /\ Contacts' = Contacts)]_vars

\* C2: no two Contacts rows carry the same non-empty Email.
C2_EmailsUnique ==
    \A i, j \in 2..Len(Contacts) :
        (i # j /\ Contacts[i][Index(CONTACT_HEADERS, H_Email)] # Empty)
            => Contacts[i][Index(CONTACT_HEADERS, H_Email)]
                   # Contacts[j][Index(CONTACT_HEADERS, H_Email)]

\* C3: the row at data position k reads back with Contact ID k, and a call
\* of add_contact that appends the Nth row returns N.
C3_SequentialIds ==
    /\ \A k \in 1..Len(ContactRows) : ContactRows[k][H_Contact_ID] = PyInt(k)
    /\ (last.op = "add_contact" /\ last.wrote)
           => (last.ret = PyInt(last.pre + 1) /\ DataRows(Contacts) = last.pre + 1)

\* C3 witness: a full table built from pairwise distinct non-empty emails,
\* with a successful update as the last operation.
C3_Witness ==
    /\ DataRows(Contacts) >= 2
    /\ last.op = "update" /\ last.out = "success"
    /\ \A i, j \in 1..Len(ContactRows) :
           /\ Truthy(ContactRows[i][H_Email])
           /\ i # j => ContactRows[i][H_Email] # ContactRows[j][H_Email]

\* C4: after a successful update of contact i, listing the contacts shows a
\* row with Contact ID i whose seven fields read as the values the form
\* held and whose Created Date is the one the contact had before.
C4_UpdateRoundTrip ==
    (last.op = "update" /\ last.out = "success")
        => \E k \in 1..Len(ContactRows) :
              /\ Str(ContactRows[k][H_Contact_ID]) = last.cid
              /\ \A f \in 1..Len(last.row) :
                     Str(ContactRows[k][CONTACT_HEADERS[f + 1]]) = last.row[f]
              /\ Str(ContactRows[k][H_Created_Date]) = last.res

\* C6: add_contact with an empty email appends one row whose ID is the row
\* count it read plus one, and returns that ID.
C6_EmptyEmailAppends ==
    (last.op = "add_contact" /\ last.email = Empty)
        => /\ last.wrote
           /\ last.ret = PyInt(last.pre + 1)
           /\ DataRows(Contacts) = last.pre + 1
           /\ ContactRows[Len(ContactRows)][H_Contact_ID] = last.ret
           /\ ContactRows[Len(ContactRows)][H_Email] = PyStr(Empty)

\* C6 witness: add_contact with an empty email ran on a table that already
\* held a row with an empty email.
C6_Witness ==
    /\ last.op = "add_contact" /\ last.email = Empty
    /\ \E k \in 1..last.pre : ContactRows[k][H_Email] = PyStr(Empty)

-----------------------------------------------------------------------------
(* Properties of the dashboard and of outreach.                            *)

\* The Date cells of the data rows of ws whose Contact ID cell reads, as
\* text, cid
DateCellsOf(ws, headers, cid) ==
    {ws[i][Index(headers, H_Date)] :
        i \in {j \in 2..Len(ws) :
                  Str(Numericise(ws[j][Index(headers, H_Contact_ID)])) = cid}}

ActivityCells(cid) ==
    DateCellsOf(Notes, NOTES_HEADERS, cid) \cup DateCellsOf(Email_Log, EMAIL_HEADERS, cid)

\* res is the latest of the calendar dates written in cells
IsLatest(res, cells) ==
    /\ res \in cells
    /\ \A d \in cells : ~DateLess(fromisoformat(res), fromisoformat(d))

\* C5 (checked under SpecAct): compute_last_contacted for contact c returns
\* the latest date among the notes and email-log rows of c, and the
\* no-activity literal when c has none; rows of other contacts play no part.
C5_LatestOfOwnRows ==
    (last.op = "last_contacted")
        => /\ last.out = ""
           /\ IF ActivityCells(last.cid) = {} THEN last.res = NoActivity
              ELSE IsLatest(last.res, ActivityCells(last.cid))

\* C5 witness: the contact asked about has a note and an email-log row on
\* different days.
C5_Witness ==
    /\ last.op = "last_contacted"
    /\ DateCellsOf(Notes, NOTES_HEADERS, last.cid) # {}
    /\ DateCellsOf(Email_Log, EMAIL_HEADERS, last.cid) # {}
    /\ Cardinality(ActivityCells(last.cid)) = 2

\* C10 (checked under SpecAct): the Email_Log worksheet changes only by one
\* row appended by a Send Email run whose contact had an email, whose
\* credentials loaded and whose send call returned; the row carries the
\* message ID the provider returned and the selected contact's ID.
C10_LoggedOnlyAfterSend ==
    [][(Email_Log' # Email_Log)
       => /\ last'.op = "send" /\ last'.email # Empty
          /\ last'.secret = "usable" /\ last'.replied
          /\ Len(Email_Log') = Len(Email_Log) + 1
          /\ SubSeq(Email_Log', 1, Len(Email_Log)) = Email_Log
          /\ Email_Log'[Len(Email_Log')][Index(EMAIL_HEADERS, H_Email_ID)] = last'.res
          /\ Email_Log'[Len(Email_Log')][Index(EMAIL_HEADERS, H_Contact_ID)] = last'.cid]_vars

\* C10 witness: a send went through and its row is the last of the log.
C10_Witness ==
    /\ last.op = "send" /\ last.out = "sent"
    /\ DataRows(Email_Log) = last.pre + 1
    /\ Email_Log[Len(Email_Log)][Index(EMAIL_HEADERS, H_Email_ID)] = last.res

\* The Date cells a call skips: those that read back false
Skipped(cells) == {d \in cells : ~Truthy(Numericise(d))}

\* The Date cells that name a calendar date
WellFormed(cells) == {d \in cells : Numericise(d).kind = "str" /\ IsIsoDate(d)}

\* C7 as stated (checked under SpecAgg): compute_last_contacted never
\* fails; it skips every Date cell that is empty or names no calendar date
\* and returns the latest of the others, or the no-activity literal.
C7_BadDatesSkipped ==
    (last.op = "last_contacted")
        => /\ last.out = ""
           /\ IF WellFormed(ActivityCells(last.cid)) = {} THEN last.res = NoActivity
              ELSE IsLatest(last.res, WellFormed(ActivityCells(last.cid)))

\* C7 as amended: the call skips exactly the Date cells that read back
\* false (the empty cell, the number zero); if any other Date cell of the
\* contact names no calendar date the call raises; otherwise it returns the
\* latest of the dates kept, or the no-activity literal when none is kept.
C7_EmptySkippedOthersRaise ==
    (last.op = "last_contacted")
        => LET cells == ActivityCells(last.cid)
               kept == cells \ Skipped(cells)
           IN  IF kept # WellFormed(cells)
               THEN last.out \in {"ValueError", "TypeError"}
               ELSE /\ last.out = ""
                    /\ IF kept = {} THEN last.res = NoActivity
                       ELSE IsLatest(last.res, kept)

\* C7 witness: the contact has an empty Date cell and a well-formed one,
\* and nothing else; the call returned the well-formed date.
C7_Witness ==
    /\ last.op = "last_contacted"
    /\ Empty \in ActivityCells(last.cid)
    /\ WellFormed(ActivityCells(last.cid)) # {}
    /\ last.out = "" /\ last.res \in WellFormed(ActivityCells(last.cid))

-----------------------------------------------------------------------------
(* Properties of the update button and of concurrent sessions.             *)

\* The worksheet holds a row whose Contact ID reads, as text, cid
HasContact(ws, cid) ==
    \E i \in 2..Len(ws) :
        Str(Numericise(ws[i][Index(CONTACT_HEADERS, H_Contact_ID)])) = cid

\* C8 (checked under SpecUpd): when the button runs for a contact ID that no
\* row of the Contacts worksheet carries, nothing is written to any of the
\* three worksheets and the page reports neither success nor an error.
C8_UpdateMissIsSilent ==
    [][\A s \in Sessions :
          (/\ sess[s].pc = "chosen" /\ sess'[s].pc = "idle"
           /\ ~HasContact(Contacts, Str(sess[s].contacts[1][H_Contact_ID])))
          => /\ Contacts' = Contacts /\ Notes' = Notes /\ Email_Log' = Email_Log
             /\ last'.op = "update" /\ last'.out = "none"]_vars

\* C8 witness: the button ran on a worksheet with rows, none of which
\* carries the chosen ID.
C8_Witness ==
    /\ last.op = "update" /\ last.out = "none"
    /\ DataRows(Contacts) >= 1
    /\ ~HasContact(Contacts, last.cid)

\* C9 (checked under SpecConc): a row appended by add_contact carries the
\* row count its session read plus one, whatever was appended in between;
\* so two sessions that appended after reading the same count hold two
\* different rows with the same Contact ID.
C9_SameCountSameId ==
    \A s, t \in Sessions :
        (/\ s # t
         /\ sess[s].pc = "idle" /\ sess[t].pc = "idle"
         /\ sess[s].at # 0 /\ sess[t].at # 0
         /\ Len(sess[s].contacts) = Len(sess[t].contacts))
        => /\ sess[s].at # sess[t].at
           /\ Contacts[sess[s].at][Index(CONTACT_HEADERS, H_Contact_ID)]
                  = Contacts[sess[t].at][Index(CONTACT_HEADERS, H_Contact_ID)]

\* C9 witness: both sessions appended after reading the same row count, and
\* the worksheet holds two rows with one Contact ID.
C9_Witness ==
    /\ \E s, t \in Sessions :
          /\ s # t
          /\ sess[s].pc = "idle" /\ sess[t].pc = "idle"
          /\ sess[s].at # 0 /\ sess[t].at # 0
          /\ Len(sess[s].contacts) = Len(sess[t].contacts)
    /\ \E i, j \in 2..Len(Contacts) :
          /\ i # j
          /\ Contacts[i][Index(CONTACT_HEADERS, H_Contact_ID)]
                 = Contacts[j][Index(CONTACT_HEADERS, H_Contact_ID)]

=============================================================================
